---- MODULE Spec2Model ----
(***************************************************************************)
(* Model of the Katowice flight-board fetchers 19_05_flight.py and         *)
(* katowise_v3.py: direction validation, the +-12 h date window, the       *)
(* per-date query loop of get_flights and the field normalisation of       *)
(* process_flight (flight-number canonicalisation, time extraction,        *)
(* record shaping).                                                        *)
(*                                                                         *)
(* Python strings are sequences of one-character strings; None and the     *)
(* "not computed yet" marker are sequences holding one longer element, so  *)
(* that they differ from every string.                                     *)
(***************************************************************************)
EXTENDS Integers, Sequences, FiniteSets, TLC

VARIABLES
    variant,        \* which file runs: "19_05" or "v3"
    pc,             \* position in get_flights / in the function under study
    direction_str,  \* get_flights' argument
    direction,      \* validate_direction's result (1, 2; 0 before it ran)
    now,            \* datetime.now(warsaw_tz), in minutes since day 0, 00:00
    current_date,   \* calculate_date_window's loop variable
    dates,          \* calculate_date_window's set
    pending,        \* dates of dates_to_query the for loop has not taken yet
    api,            \* the "data" lists the upstream API may answer with
    answered,       \* date -> the data list its request was answered with
    failed,         \* dates whose request raised RequestException
    requests,       \* the params of the requests issued, in order
    all_flights,    \* get_flights' result list
    raised,         \* the exception that left get_flights ("none" if none)
    raw,            \* a raw flight number under study
    fn_clean,       \* clean_flight_number(raw)
    fn_format,      \* format_flight_number(raw)
    entry,          \* a raw flight entry under study
    entry_date,     \* the date the entry is processed under
    times,          \* extract_times' result for the entry
    rec             \* process_flight's result for the entry

vars == <<variant, pc, direction_str, direction, now, current_date, dates,
          pending, api, answered, failed, requests, all_flights, raised,
          raw, fn_clean, fn_format, entry, entry_date, times, rec>>

getVars == <<variant, direction_str, direction, now, current_date, dates,
             pending, api, answered, failed, requests, all_flights, raised>>
fnVars  == <<raw, fn_clean, fn_format>>
recVars == <<entry, entry_date, times, rec>>

-----------------------------------------------------------------------------
(* Bounds of the model *)

MaxDigits == 4      \* digits after the carrier code of a raw flight number
MaxPieces == 3      \* pieces a status string is built from
MaxData   == 2      \* entries in one response's "data" list
MaxDay    == 1      \* days "now" ranges over (day 1 .. MaxDay)

-----------------------------------------------------------------------------
(* Python values and string operations *)

None   == <<"None">>
NotYet == <<"not yet">>
NA     == <<"N", "/", "A">>
Empty  == <<>>

Digits == {"0", "1", "2", "3", "4", "5", "6", "7", "8", "9"}
Upper  == {"A", "B", "C", "D", "E", "F", "G", "H", "I", "J", "K", "L", "M",
           "N", "O", "P", "Q", "R", "S", "T", "U", "V", "W", "X", "Y", "Z"}
Lower  == {"a", "b", "c", "d", "e", "f", "g", "h", "i", "j", "k", "l", "m",
           "n", "o", "p", "q", "r", "s", "t", "u", "v", "w", "x", "y", "z"}
Whitespace == {" ", "\t", "\n"}

\* s[a..b], empty when a > b
Slice(s, a, b) == [i \in 1..(b - a + 1) |-> s[a + i - 1]]

\* s[n:] for n >= 0 (Python: the tail from 0-based index n, empty past the end)
From(s, n) == IF n >= Len(s) THEN <<>> ELSE Slice(s, n + 1, Len(s))

\* s[:n]
UpTo(s, n) == IF n >= Len(s) THEN s ELSE Slice(s, 1, n)

\* s.startswith(c) for a one-character c
StartsWith(s, c) == Len(s) > 0 /\ s[1] = c

\* str.strip(): leading and trailing whitespace removed
Strip(s) ==
    LET keep == {i \in 1..Len(s) : s[i] \notin Whitespace}
    IN  IF keep = {} THEN <<>>
        ELSE LET lo == CHOOSE i \in keep : \A j \in keep : i <= j
                 hi == CHOOSE i \in keep : \A j \in keep : i >= j
             IN  Slice(s, lo, hi)

\* a falsy argument of "if not x": None or the empty string
Falsy(s) == s = None \/ s = Empty

-----------------------------------------------------------------------------
(* 19_05_flight.py: clean_flight_number *)

Spaces(s) == {i \in 1..Len(s) : s[i] = " "}

\* s.split(" ")[0] and s.split(" ")[-1] when " " occurs in s
FirstPart(s) == Slice(s, 1, (CHOOSE i \in Spaces(s) : \A j \in Spaces(s) : i <= j) - 1)
LastPart(s)  == Slice(s, (CHOOSE i \in Spaces(s) : \A j \in Spaces(s) : i >= j) + 1, Len(s))

\* number[1:] if number.startswith('0')
DropOneZero(number) == IF StartsWith(number, "0") THEN From(number, 1) ELSE number

\* the body of clean_flight_number after flight_number_raw.strip()
CleanStripped(s) ==
    IF Spaces(s) # {}
    THEN FirstPart(s) \o DropOneZero(LastPart(s))
    ELSE IF StartsWith(From(s, 2), "0")
         THEN UpTo(s, 2) \o From(s, 3)
         ELSE s

clean_flight_number(flight_number_raw) ==
    IF Falsy(flight_number_raw) THEN NA
    ELSE CleanStripped(Strip(flight_number_raw))

-----------------------------------------------------------------------------
(* katowise_v3.py: format_flight_number *)

\* the character class [A-Z0-9]
CodeChars == Upper \cup Digits

\* The ways ^([A-Z0-9]{2,3})\s*0*(\d+)$ can match s: k characters of code,
\* w of whitespace, z zeros, then digits (at least one) to the end.
RegexMatches(s) ==
    {m \in (2..3) \X (0..Len(s)) \X (0..Len(s)) :
        /\ m[1] + m[2] + m[3] < Len(s)
        /\ \A i \in 1..m[1] : s[i] \in CodeChars
        /\ \A i \in (m[1] + 1)..(m[1] + m[2]) : s[i] \in Whitespace
        /\ \A i \in (m[1] + m[2] + 1)..(m[1] + m[2] + m[3]) : s[i] = "0"
        /\ \A i \in (m[1] + m[2] + m[3] + 1)..Len(s) : s[i] \in Digits}

\* Greedy quantifiers with backtracking: the match found first is the one that
\* takes most for the code, then most whitespace, then most zeros.
Prefer(m, n) ==
    \/ m[1] > n[1]
    \/ m[1] = n[1] /\ m[2] > n[2]
    \/ m[1] = n[1] /\ m[2] = n[2] /\ m[3] >= n[3]

FirstMatch(ms) == CHOOSE x \in ms : \A y \in ms : Prefer(x, y)

\* f"{airline_code}{number}" for the groups of match m
Groups(s, m) == UpTo(s, m[1]) \o From(s, m[1] + m[2] + m[3])

\* the body of format_flight_number, with s = raw_flight_number.strip()
FormatStripped(raw_flight_number, s) ==
    IF RegexMatches(s) # {}
    THEN Groups(s, FirstMatch(RegexMatches(s)))
    ELSE raw_flight_number

format_flight_number(raw_flight_number) ==
    FormatStripped(raw_flight_number, Strip(raw_flight_number))

-----------------------------------------------------------------------------
(* parse_flight_time: "HH:MM" and a date to an ISO-8601 timestamp *)

DigitSeq == <<"0", "1", "2", "3", "4", "5", "6", "7", "8", "9">>
DigitVal(c)  == (CHOOSE i \in 1..10 : DigitSeq[i] = c) - 1
DigitChar(n) == DigitSeq[n + 1]

\* "%02d"
Fmt2(n) == <<DigitChar((n \div 10) % 10), DigitChar(n % 10)>>

RECURSIVE NumVal(_)
NumVal(ds) == IF ds = <<>> THEN 0
              ELSE 10 * NumVal(UpTo(ds, Len(ds) - 1)) + DigitVal(ds[Len(ds)])

\* int(p): surrounding whitespace and one sign are accepted, then digits, which
\* single underscores may separate
DropSign(s) == IF Len(s) > 0 /\ s[1] \in {"+", "-"} THEN Tail(s) ELSE s
DigitsOk(u) ==
    /\ Len(u) > 0
    /\ \A i \in 1..Len(u) : u[i] \in Digits \cup {"_"}
    /\ u[1] # "_" /\ u[Len(u)] # "_"
    /\ \A i \in 1..(Len(u) - 1) : ~(u[i] = "_" /\ u[i + 1] = "_")
IntOk(p) == DigitsOk(DropSign(Strip(p)))
Signed(s, v) == IF s[1] = "-" THEN 0 - v ELSE v
Magnitude(u) == NumVal(SelectSeq(u, LAMBDA c : c # "_"))
IntVal(p) == Signed(Strip(p), Magnitude(DropSign(Strip(p))))

\* time_str.split(":")
Colons(s)     == {i \in 1..Len(s) : s[i] = ":"}
HourPart(s)   == UpTo(s, (CHOOSE i \in Colons(s) : TRUE) - 1)
MinutePart(s) == From(s, CHOOSE i \in Colons(s) : TRUE)

\* date.isoformat(): day 0 of the model is 2025-05-19; the model's days stay
\* within May 2025, where Europe/Warsaw is at UTC+02:00
DateStr(date) == <<"2", "0", "2", "5", "-", "0", "5", "-">> \o Fmt2(19 + date)
UtcOffset     == <<"+", "0", "2", ":", "0", "0">>

\* tz.localize(datetime.combine(date, time(hour, minute)))
\*   .isoformat(timespec='milliseconds')
IsoFormat(date, hour, minute) ==
    DateStr(date) \o <<"T">> \o Fmt2(hour) \o <<":">> \o Fmt2(minute)
        \o <<":", "0", "0", ".", "0", "0", "0">> \o UtcOffset

\* int() accepts both parts and datetime.time accepts the values
PartsOk(h, m) ==
    /\ IntOk(h) /\ IntOk(m)
    /\ IntVal(h) \in 0..23
    /\ IntVal(m) \in 0..59

\* the try block of parse_flight_time succeeds: exactly two parts, both fine
TimeParses(time_str) ==
    /\ Cardinality(Colons(time_str)) = 1
    /\ PartsOk(HourPart(time_str), MinutePart(time_str))

ParsedTime(time_str, date) ==
    IsoFormat(date, IntVal(HourPart(time_str)), IntVal(MinutePart(time_str)))

\* parse_flight_time, with the value it gives up with
ParseOr(time_str, date, sentinel) ==
    IF Falsy(time_str) THEN sentinel
    ELSE IF TimeParses(time_str) THEN ParsedTime(time_str, date)
    ELSE sentinel

\* 19_05_flight.py
parse_flight_time_19_05(time_str, date) == ParseOr(time_str, date, NA)

\* katowise_v3.py
parse_flight_time_v3(time_str, date) == ParseOr(time_str, date, None)

-----------------------------------------------------------------------------
(* extract_times *)

\* status.split(): the maximal runs of non-whitespace characters
TokenStarts(s) ==
    {i \in 1..Len(s) : s[i] \notin Whitespace
                       /\ (i = 1 \/ s[i - 1] \in Whitespace)}

\* the token that starts at a
TokenAt(s, a) ==
    Slice(s, a, CHOOSE i \in a..Len(s) :
                    /\ \A j \in a..i : s[j] \notin Whitespace
                    /\ (i = Len(s) \/ s[i + 1] \in Whitespace))

\* status_parts[-1]
LastToken(s) ==
    TokenAt(s, CHOOSE i \in TokenStarts(s) : \A j \in TokenStarts(s) : i >= j)

\* re.match(r'^\d{2}:\d{2}$', t)
MatchesHHMM(t) ==
    /\ Len(t) = 5
    /\ t[1] \in Digits /\ t[2] \in Digits /\ t[3] = ":"
    /\ t[4] \in Digits /\ t[5] \in Digits

\* len(status_parts) > 1 and re.match(..., status_parts[-1])
StatusHasTime(status) ==
    /\ Cardinality(TokenStarts(status)) > 1
    /\ MatchesHHMM(LastToken(status))

\* the token count tested against 0 instead of 1
StatusHasTimeAnyCount(status) ==
    /\ Cardinality(TokenStarts(status)) > 0
    /\ MatchesHHMM(LastToken(status))

\* <<scheduled, estimated, actual>> of 19_05_flight.py: time_parsed is
\* assigned to both estimated_time and actual_time
Times_19_05(has_time, time_parsed, scheduled_time_parsed) ==
    <<scheduled_time_parsed,
      IF has_time THEN time_parsed ELSE NA,
      IF has_time THEN time_parsed ELSE NA>>

extract_times_19_05_one_token(status, scheduled_time, query_date) ==
    Times_19_05(StatusHasTimeAnyCount(status),
                parse_flight_time_19_05(LastToken(status), query_date),
                parse_flight_time_19_05(scheduled_time, query_date))

extract_times_19_05(status, scheduled_time, query_date) ==
    Times_19_05(StatusHasTime(status),
                parse_flight_time_19_05(LastToken(status), query_date),
                parse_flight_time_19_05(scheduled_time, query_date))

\* <<scheduled, estimated, actual>> of katowise_v3.py: actual_time is
\* estimated_time, and only these two are turned from None to "N/A"
Times_v3(estimated_time, scheduled_time_parsed) ==
    <<scheduled_time_parsed,
      IF estimated_time = None THEN NA ELSE estimated_time,
      IF estimated_time = None THEN NA ELSE estimated_time>>

\* estimated_time before the None test
Estimated_v3(has_time, time_parsed) == IF has_time THEN time_parsed ELSE None

extract_times_v3(status, scheduled_time, query_date) ==
    Times_v3(Estimated_v3(StatusHasTime(status),
                          parse_flight_time_v3(LastToken(status), query_date)),
             parse_flight_time_v3(scheduled_time, query_date))

-----------------------------------------------------------------------------
(* process_flight *)

airport_codes ==
    (<<"K", "a", "t", "o", "w", "i", "c", "e">> :> <<"K", "T", "W">>) @@
    (<<"F", "r", "a", "n", "k", "f", "u", "r", "t">> :> <<"F", "R", "A">>) @@
    (<<"W", "a", "r", "s", "a", "w">> :> <<"W", "A", "W">>) @@
    (<<"M", "u", "n", "i", "c", "h">> :> <<"M", "U", "C">>) @@
    (<<"S", "p", "l", "i", "t">> :> <<"S", "P", "U">>) @@
    (<<"R", "e", "y", "k", "j", "a", "v", "í", "k">> :> <<"K", "E", "F">>) @@
    (<<"K", "a", "t", "a", "n", "i", "a">> :> <<"C", "T", "A">>) @@
    (<<"L", "a", "r", "n", "a", "k", "a">> :> <<"L", "C", "A">>) @@
    (<<"A", "l", "g", "h", "e", "r", "o">> :> <<"A", "H", "O">>) @@
    (<<"T", "e", "n", "e", "r", "y", "f", "a">> :> <<"T", "F", "S">>) @@
    (<<"R", "z", "y", "m">> :> <<"F", "C", "O">>) @@
    (<<"M", "e", "d", "i", "o", "l", "a", "n", " ", "B", "e", "r", "g", "a", "m", "o">> :> <<"B", "G", "Y">>) @@
    (<<"L", "o", "n", "d", "y", "n", " ", "L", "u", "t", "o", "n">> :> <<"L", "T", "N">>)

LowerSeq == <<"a", "b", "c", "d", "e", "f", "g", "h", "i", "j", "k", "l", "m",
              "n", "o", "p", "q", "r", "s", "t", "u", "v", "w", "x", "y", "z">>
UpperSeq == <<"A", "B", "C", "D", "E", "F", "G", "H", "I", "J", "K", "L", "M",
              "N", "O", "P", "Q", "R", "S", "T", "U", "V", "W", "X", "Y", "Z">>

\* str.upper() and str.lower(), character by character
UpperChar(c) == IF c \in Lower THEN UpperSeq[CHOOSE i \in 1..26 : LowerSeq[i] = c]
                ELSE IF c = "í" THEN "Í" ELSE c
LowerChar(c) == IF c \in Upper THEN LowerSeq[CHOOSE i \in 1..26 : UpperSeq[i] = c]
                ELSE IF c = "Í" THEN "í" ELSE c
ToUpper(s) == [i \in 1..Len(s) |-> UpperChar(s[i])]
ToLower(s) == [i \in 1..Len(s) |-> LowerChar(s[i])]

\* s.replace(c, "")
Remove(s, c) == SelectSeq(s, LAMBDA x : x # c)

\* flight_data.get(key, default)
Get(flight_data, key, default) ==
    IF key \in DOMAIN flight_data THEN flight_data[key] ELSE default

\* 19_05_flight.py; the name says the opposite of what it returns
is_third_char_alphabet(text) ==
    IF Len(text) < 3 THEN FALSE
    ELSE text[3] \notin (Upper \cup Lower \cup {"í", "Í"})

get_flight_iata(flight_number) == UpTo(flight_number, 2)

KTW == <<"K", "T", "W">>

\* the outcome of a call that raised, and of one that returned
Raised(exception) == [exception |-> exception]
Returned(value)   == [value |-> value]
\* no call made yet
NoRecord == [unset |-> TRUE]
IsRecord(r) == "flight_number" \in DOMAIN r

\* status if status else "N/A"
StatusOrNA(status) == IF status # Empty THEN status ELSE NA

\* flight_data.get("status", "").strip()
StatusOf(flight_data) == Strip(Get(flight_data, "status", Empty))

(* 19_05_flight.py *)

\* None.strip() raises AttributeError
ProcessRaises_19_05(flight_data) ==
    \/ Get(flight_data, "airport", Empty) = None
    \/ Get(flight_data, "airline_name", Empty) = None
    \/ Get(flight_data, "status", Empty) = None

\* flight_data.get(key, "").strip().replace(".", "")
Cleaned(flight_data, key) == Remove(Strip(Get(flight_data, key, Empty)), ".")

\* airport_codes.get(airport_name, airport_name.replace(" ", ""))
Resolve(airport_name) ==
    IF airport_name \in DOMAIN airport_codes
    THEN airport_codes[airport_name]
    ELSE Remove(airport_name, " ")

\* get_flight_iata(...) if is_third_char_alphabet(...) else "N/A"
IataOrNA(formatted_flight_number) ==
    IF is_third_char_alphabet(formatted_flight_number)
    THEN get_flight_iata(formatted_flight_number) ELSE NA

ArrivalRecord_19_05(formatted_flight_number, airline_name, other, t, status) ==
    [flight_number          |-> formatted_flight_number,
     is_flight_number       |-> is_third_char_alphabet(formatted_flight_number),
     callsign               |-> formatted_flight_number,
     airline                |-> airline_name,
     departure_airport      |-> ToUpper(other),
     arrival_airport        |-> ToUpper(KTW),
     scheduled_arrival_time |-> t[1],
     estimated_arrival_time |-> t[2],
     actual_arrival_time    |-> t[3],
     status                 |-> StatusOrNA(status),
     airline_iata_code      |-> IataOrNA(formatted_flight_number)]

DepartureRecord_19_05(formatted_flight_number, airline_name, other, t, status) ==
    [flight_number            |-> formatted_flight_number,
     is_flight_number         |-> is_third_char_alphabet(formatted_flight_number),
     callsign                 |-> formatted_flight_number,
     airline                  |-> airline_name,
     departure_airport        |-> ToUpper(KTW),
     arrival_airport          |-> ToUpper(other),
     scheduled_departure_time |-> t[1],
     estimated_departure_time |-> t[2],
     actual_departure_time    |-> t[3],
     status                   |-> StatusOrNA(status),
     airline_iata_code        |-> IataOrNA(formatted_flight_number)]

\* if direction == 2: ... else: ...
Shape_19_05(dir, formatted_flight_number, airline_name, other, t, status) ==
    IF dir = 2
    THEN ArrivalRecord_19_05(formatted_flight_number, airline_name, other, t,
                             status)
    ELSE DepartureRecord_19_05(formatted_flight_number, airline_name, other, t,
                               status)

process_flight_19_05(flight_data, dir, query_date) ==
    IF ProcessRaises_19_05(flight_data) THEN Raised("AttributeError")
    ELSE Shape_19_05(dir,
             clean_flight_number(Get(flight_data, "flight_number", Empty)),
             Cleaned(flight_data, "airline_name"),
             Resolve(Cleaned(flight_data, "airport")),
             extract_times_19_05(StatusOf(flight_data),
                                 Get(flight_data, "scheduled_time", Empty),
                                 query_date),
             StatusOf(flight_data))

(* katowise_v3.py *)

ProcessRaises_v3(flight_data) ==
    \/ Get(flight_data, "flight_number", Empty) = None
    \/ Get(flight_data, "status", Empty) = None

ArrivalRecord_v3(flight_data, formatted_flight_number, t, status) ==
    [flight_number          |-> formatted_flight_number,
     callsign               |-> formatted_flight_number,
     airline                |-> Get(flight_data, "airline_name", Empty),
     departure_airport      |-> Get(flight_data, "airport", Empty),
     scheduled_arrival_time |-> t[1],
     estimated_arrival_time |-> t[2],
     actual_arrival_time    |-> t[3],
     status                 |-> StatusOrNA(status),
     terminal               |-> Get(flight_data, "terminal", Empty)]

DepartureRecord_v3(flight_data, formatted_flight_number, t, status) ==
    [flight_number            |-> formatted_flight_number,
     callsign                 |-> formatted_flight_number,
     airline                  |-> Get(flight_data, "airline_name", Empty),
     arrival_airport          |-> Get(flight_data, "airport", Empty),
     scheduled_departure_time |-> t[1],
     estimated_departure_time |-> t[2],
     actual_departure_time    |-> t[3],
     status                   |-> StatusOrNA(status),
     terminal                 |-> Get(flight_data, "terminal", Empty),
     boarding_gate            |-> Get(flight_data, "boarding_gate", None),
     checkin_location         |-> Get(flight_data, "checkin_location", None)]

\* the direction codes confused: the arrival shape for departures
Shape_v3_swapped(dir, flight_data, formatted_flight_number, t, status) ==
    IF dir = 1
    THEN ArrivalRecord_v3(flight_data, formatted_flight_number, t, status)
    ELSE DepartureRecord_v3(flight_data, formatted_flight_number, t, status)

\* if direction == 2: ... else: ...
Shape_v3(dir, flight_data, formatted_flight_number, t, status) ==
    IF dir = 2
    THEN ArrivalRecord_v3(flight_data, formatted_flight_number, t, status)
    ELSE DepartureRecord_v3(flight_data, formatted_flight_number, t, status)

process_flight_v3(flight_data, dir, query_date) ==
    IF ProcessRaises_v3(flight_data) THEN Raised("AttributeError")
    ELSE Shape_v3(dir, flight_data,
             format_flight_number(Get(flight_data, "flight_number", Empty)),
             extract_times_v3(StatusOf(flight_data),
                              Get(flight_data, "scheduled_time", Empty),
                              query_date),
             StatusOf(flight_data))

Variants == {"19_05", "v3"}

extract_times(v, status, scheduled_time, query_date) ==
    IF v = "v3" THEN extract_times_v3(status, scheduled_time, query_date)
    ELSE extract_times_19_05(status, scheduled_time, query_date)

process_flight(v, flight_data, dir, query_date) ==
    IF v = "v3" THEN process_flight_v3(flight_data, dir, query_date)
    ELSE process_flight_19_05(flight_data, dir, query_date)

parse_flight_time(v, time_str, date) ==
    IF v = "v3" THEN parse_flight_time_v3(time_str, date)
    ELSE parse_flight_time_19_05(time_str, date)

-----------------------------------------------------------------------------
(* validate_direction, calculate_date_window, get_time_range *)

Departure  == <<"d", "e", "p", "a", "r", "t", "u", "r", "e">>
Departures == <<"d", "e", "p", "a", "r", "t", "u", "r", "e", "s">>
Arrival    == <<"a", "r", "r", "i", "v", "a", "l">>
Arrivals   == <<"a", "r", "r", "i", "v", "a", "l", "s">>

\* the if/elif/else of validate_direction on the normalised string
DirectionCode(s) ==
    IF s = Departure \/ s = Departures THEN Returned(1)
    ELSE IF s = Arrival \/ s = Arrivals THEN Returned(2)
    ELSE Raised("ValueError")

\* the comparison made without .strip()
validate_direction_unstripped(direction_string) ==
    DirectionCode(ToLower(direction_string))

validate_direction(direction_string) ==
    DirectionCode(Strip(ToLower(direction_string)))

MinutesPerDay == 24 * 60

\* datetime.timedelta(hours=12), in minutes
WindowHours == 12
HalfWindow  == WindowHours * 60

\* .date() and .strftime("%H:%M") of an instant (wall-clock arithmetic)
DateOf(t) == t \div MinutesPerDay
HHMM(t)   == Fmt2((t % MinutesPerDay) \div 60) \o <<":">> \o Fmt2(t % 60)

time_window_start(t) == t - HalfWindow
time_window_end(t)   == t + HalfWindow

\* the loop test of calculate_date_window with < for <=
LoopContinuesStrict(current, end_date) == current < end_date

\* while current_date <= end_date
LoopContinues(current, end_date) == current <= end_date

Midnight   == <<"0", "0", ":", "0", "0">>
LastMinute == <<"2", "3", ":", "5", "9">>

\* time_from decided by the window's end date
get_time_range_from_end(date, t) ==
    <<IF date = DateOf(time_window_end(t))
      THEN HHMM(time_window_start(t)) ELSE Midnight,
      IF date = DateOf(time_window_end(t))
      THEN HHMM(time_window_end(t)) ELSE LastMinute>>

\* <<time_from, time_to>>
get_time_range(date, t) ==
    <<IF date = DateOf(time_window_start(t))
      THEN HHMM(time_window_start(t)) ELSE Midnight,
      IF date = DateOf(time_window_end(t))
      THEN HHMM(time_window_end(t)) ELSE LastMinute>>

-----------------------------------------------------------------------------
(* get_flights *)

\* process_flight is called with five positional arguments in both files;
\* 19_05_flight.py defines it with five parameters, katowise_v3.py with four
CallArguments    == 5
Parameters_19_05 == 5
Parameters_v3    == 4

Parameters(v) == IF v = "v3" THEN Parameters_v3 ELSE Parameters_19_05

\* the call of process_flight in get_flights' loop
CallProcessFlight(v, flight_data, dir, date) ==
    IF CallArguments # Parameters(v) THEN Raised("TypeError")
    ELSE process_flight(v, flight_data, dir, date)

\* the outcomes of the calls for a data list, in order
Outcomes(v, data, dir, date) ==
    [i \in 1..Len(data) |-> CallProcessFlight(v, data[i], dir, date)]

Raises(outcomes) == {i \in 1..Len(outcomes) : ~IsRecord(outcomes[i])}

\* the first call that raises, 0 if none does
FirstRaise(outcomes) ==
    IF Raises(outcomes) = {} THEN 0
    ELSE CHOOSE i \in Raises(outcomes) : \A j \in Raises(outcomes) : i <= j

\* params of the request, range = <<time_from, time_to>>
Params(dir, date, range) ==
    [direction |-> dir,
     date      |-> DateStr(date),
     time_from |-> range[1],
     time_to   |-> range[2]]

\* direction = validate_direction(direction_str)
Validated(r) ==
    IF "value" \in DOMAIN r
    THEN direction' = r.value /\ pc' = "window" /\ raised' = raised
    ELSE direction' = direction /\ pc' = "raised" /\ raised' = r.exception

Validate ==
    /\ pc = "start"
    /\ Validated(validate_direction(direction_str))
    /\ UNCHANGED <<variant, direction_str, now, current_date, dates, pending,
                   api, answered, failed, requests, all_flights,
                   fnVars, recVars>>

WindowStart ==
    /\ pc = "window"
    /\ current_date' = DateOf(time_window_start(now))
    /\ dates' = {}
    /\ pc' = "window_loop"
    /\ UNCHANGED <<variant, direction_str, direction, now, pending, api,
                   answered, failed, requests, all_flights, raised,
                   fnVars, recVars>>

WindowIter ==
    /\ pc = "window_loop"
    /\ LoopContinues(current_date, DateOf(time_window_end(now)))
    /\ dates' = dates \cup {current_date}
    /\ current_date' = current_date + 1
    /\ UNCHANGED <<variant, pc, direction_str, direction, now, pending, api,
                   answered, failed, requests, all_flights, raised,
                   fnVars, recVars>>

WindowReturn ==
    /\ pc = "window_loop"
    /\ ~LoopContinues(current_date, DateOf(time_window_end(now)))
    /\ pending' = dates
    /\ pc' = "query"
    /\ UNCHANGED <<variant, direction_str, direction, now, current_date,
                   dates, api, answered, failed, requests, all_flights,
                   raised, fnVars, recVars>>

\* the request of one pass of the for loop
Request(date) ==
    /\ pending' = pending \ {date}
    /\ requests' = Append(requests,
                          Params(direction, date, get_time_range(date, now)))

\* one pass of the for loop whose request raises RequestException (transport
\* error, or raise_for_status on a non-2xx response)
QueryFails ==
    /\ pc = "query"
    /\ \E date \in pending : Request(date) /\ failed' = failed \cup {date}
    /\ UNCHANGED <<variant, pc, direction_str, direction, now, current_date,
                   dates, api, answered, all_flights, raised,
                   fnVars, recVars>>

\* the inner loop over data.get("data", []): the records are appended until a
\* call raises, and what is raised there is no RequestException
Collect(outcomes, bad) ==
    IF bad = 0
    THEN /\ all_flights' = all_flights \o outcomes
         /\ UNCHANGED <<pc, raised>>
    ELSE /\ all_flights' = all_flights \o UpTo(outcomes, bad - 1)
         /\ raised' = outcomes[bad].exception
         /\ pc' = "raised"

CollectAll(outcomes) == Collect(outcomes, FirstRaise(outcomes))

\* one pass of the for loop whose request is answered with a data list
QueryAnswers ==
    /\ pc = "query"
    /\ \E date \in pending, data \in api :
          /\ Request(date)
          /\ answered' = answered @@ (date :> data)
          /\ CollectAll(Outcomes(variant, data, direction, date))
    /\ UNCHANGED <<variant, direction_str, direction, now, current_date,
                   dates, api, failed, fnVars, recVars>>

Return ==
    /\ pc = "query" /\ pending = {}
    /\ pc' = "returned"
    /\ UNCHANGED <<getVars, fnVars, recVars>>

Next ==
    \/ Validate \/ WindowStart \/ WindowIter \/ WindowReturn
    \/ QueryFails \/ QueryAnswers \/ Return

-----------------------------------------------------------------------------
(* Inputs *)

\* digit strings of length 0 .. n over a zero, a low and a high digit
RECURSIVE DigitStrings(_)
DigitStrings(n) ==
    IF n = 0 THEN {<<>>}
    ELSE DigitStrings(n - 1)
         \cup {Append(d, c) : d \in DigitStrings(n - 1), c \in {"0", "2", "9"}}

Carriers   == {<<"F", "R">>, <<"W", "6">>, <<"l", "o">>, <<"E", "Z", "Y">>}
Separators == {<<>>, <<" ">>, <<" ", " ">>}
Padding    == {<<>>, <<" ">>}

FlightNumberInputs ==
    {p \o c \o sep \o d : p \in Padding, c \in Carriers,
                          sep \in Separators, d \in DigitStrings(MaxDigits)}

Missing == <<"missing">>      \* the key is absent from the raw entry

EntryKeys == {"flight_number", "airport", "airline_name", "scheduled_time",
              "status", "terminal", "boarding_gate", "checkin_location"}

\* the JSON object with the keys of f that are not Missing
MkEntry(f) == [k \in {x \in DOMAIN f : f[x] # Missing} |-> f[k]]

StatusPieces ==
    {<<" ">>,
     <<"L">>,
     <<"7">>,
     <<"2", "3", ":", "5", "9">>,
     <<"2", "4", ":", "0", "0">>,
     <<"2", "3", ":", "6", "0">>}

RECURSIVE Statuses(_)
Statuses(n) ==
    IF n = 0 THEN {<<>>}
    ELSE Statuses(n - 1)
         \cup {st \o piece : st \in Statuses(n - 1), piece \in StatusPieces}

SchedTimes ==
    {Missing,
     None,
     Empty,
     <<"1", "0", ":", "3", "0">>,
     <<"0", "0", ":", "0", "0">>,
     <<"2", "3", ":", "5", "9">>,
     <<"2", "4", ":", "0", "0">>,
     <<"2", "3", ":", "6", "0">>,
     <<"2", "5", ":", "9", "9">>,
     <<"1", ":", "5">>,
     <<" ", "1", "0", ":", "3", "0", " ">>,
     <<"-", "0", ":", "+", "5">>,
     <<"-", "1", ":", "3", "0">>,
     <<"1", "_", "0", ":", "3", "0">>,
     <<"1", "0", ":", "3", "0", ":", "0", "0">>,
     <<"1", "0", "3", "0">>,
     <<"L", ":", "3", "0">>,
     <<":">>}

Boarding1035 == <<"B", "o", "a", "r", "d", "i", "n", "g", " ", "1", "0", ":", "3", "5">>
Landed2359   == <<"L", " ", "2", "3", ":", "5", "9">>
T1030        == <<"1", "0", ":", "3", "0">>
T2599        == <<"2", "5", ":", "9", "9">>

BaseEntry ==
    [flight_number    |-> <<"F", "R", " ", "0", "9", "0", "0">>,
     airport          |-> <<"A", "l", "g", "h", "e", "r", "o">>,
     airline_name     |-> <<"R", "y", "a", "n", "a", "i", "r">>,
     scheduled_time   |-> T1030,
     status           |-> Boarding1035,
     terminal         |-> Missing,
     boarding_gate    |-> Missing,
     checkin_location |-> Missing]

StatusEntries ==
    {MkEntry([BaseEntry EXCEPT !.status = st, !.scheduled_time = sc]) :
        st \in Statuses(MaxPieces) \cup {Missing, None},
        sc \in {T1030, T2599}}

SchedEntries ==
    {MkEntry([BaseEntry EXCEPT !.status = st, !.scheduled_time = sc]) :
        st \in {Empty, <<"L">>, Landed2359}, sc \in SchedTimes}

ShapeEntries ==
    {MkEntry([flight_number    |-> fn,
              airport          |-> ap,
              airline_name     |-> al,
              scheduled_time   |-> T1030,
              status           |-> st,
              terminal         |-> tm,
              boarding_gate    |-> bg,
              checkin_location |-> ck]) :
        fn \in {Missing, None, <<"F", "R", " ", "0", "9", "0", "0">>, <<"L", "O", "0", "1", "2", "3">>},
        ap \in {Missing, None, <<"F", "r", "a", "n", "k", "f", "u", "r", "t">>, <<" ", "S", "o", "m", "e", " ", "C", "i", "t", "y", ".">>},
        al \in {Missing, None, <<"W", "i", "z", "z", " ", "A", "i", "r", ".">>},
        st \in {Missing, Empty, <<" ">>, Boarding1035},
        tm \in {Missing, <<"A">>},
        bg \in {Missing, <<"B", "2">>},
        ck \in {Missing, <<"7">>}}

RawEntries == StatusEntries \cup SchedEntries \cup ShapeEntries

\* "data" lists of at most n entries
RECURSIVE DataLists(_, _)
DataLists(entries, n) ==
    IF n = 0 THEN {<<>>}
    ELSE DataLists(entries, n - 1)
         \cup {Append(l, e) : l \in DataLists(entries, n - 1), e \in entries}

GoodEntry == MkEntry(BaseEntry)
ApiEntries ==
    {GoodEntry,
     MkEntry([BaseEntry EXCEPT !.scheduled_time = T2599, !.status = <<"L">>]),
     MkEntry([BaseEntry EXCEPT !.status = None]),
     MkEntry([k \in EntryKeys |-> Missing])}

\* day 1 at 11:59 and at 12:00
NowSamples == {MinutesPerDay + 11 * 60 + 59, MinutesPerDay + 12 * 60}

\* every minute of the days 1 .. MaxDay
AllInstants == MinutesPerDay .. ((MaxDay + 1) * MinutesPerDay - 1)

\* letter cases of a word: as written, upper, capitalised, alternating
Capitalised(w) == [i \in 1..Len(w) |-> IF i = 1 THEN UpperChar(w[i]) ELSE w[i]]
Alternating(w) == [i \in 1..Len(w) |-> IF i % 2 = 0 THEN UpperChar(w[i]) ELSE w[i]]
Cases(w) == {w, ToUpper(w), Capitalised(w), Alternating(w)}

DirectionWords ==
    {Departure, Departures, Arrival, Arrivals, Empty,
     <<"d", "e", "p", "a", "r", "t", "u", "r">>,
     <<"a", "r", "r", "i", "v", "a", "l", "s", "s">>,
     <<"d", "e", "p", "a", "r", "t", " ", "u", "r", "e">>,
     <<"a", "r", "r", "i", "v", "e">>}

DirectionInputs ==
    {lead \o w \o trail :
        lead  \in {<<>>, <<" ">>, <<"\t", " ">>},
        w     \in UNION {Cases(x) : x \in DirectionWords},
        trail \in {<<>>, <<" ">>, <<" ", "\n">>}}

-----------------------------------------------------------------------------
(* Specifications *)

\* values of the variables a specification does not use
IdleGet ==
    /\ variant = "19_05" /\ direction_str = <<>> /\ direction = 0 /\ now = 0
    /\ current_date = 0 /\ dates = {} /\ pending = {} /\ api = {}
    /\ answered = <<>> /\ failed = {} /\ requests = <<>> /\ all_flights = <<>>
    /\ raised = "none"
IdleFN  == raw = NotYet /\ fn_clean = NotYet /\ fn_format = NotYet
IdleRec == entry = <<>> /\ entry_date = 0 /\ times = NotYet /\ rec = NoRecord

(* get_flights(direction_str) at instant now, against an upstream API that  *)
(* answers a request with one of the lists of api or fails it               *)
InitGet(strings, instants, lists) ==
    /\ pc = "start"
    /\ variant \in Variants
    /\ direction_str \in strings
    /\ now \in instants
    /\ api = lists
    /\ direction = 0 /\ current_date = 0 /\ dates = {} /\ pending = {}
    /\ answered = <<>> /\ failed = {} /\ requests = <<>>
    /\ all_flights = <<>> /\ raised = "none"
    /\ IdleFN /\ IdleRec

\* a few direction strings and instants, every data list
Init ==
    InitGet({Arrival, <<" ", "D", "e", "p", "a", "r", "t", "u", "r", "e", "s", " ">>, <<"a", "r", "i", "v", "a", "l">>},
            NowSamples, DataLists(ApiEntries, MaxData))

Spec == Init /\ [][Next]_vars

\* every direction string, one instant, an empty and a one-entry data list
InitDir == InitGet(DirectionInputs, {MinutesPerDay + 11 * 60 + 59},
                   {<<>>, <<GoodEntry>>})

SpecDir == InitDir /\ [][Next]_vars

\* every instant, a valid direction, empty data lists.  get_flights is
\* sequential code: every step that can be taken is taken.
InitWindow == InitGet({Arrival}, AllInstants, {<<>>})

SpecWindow == InitWindow /\ [][Next]_vars /\ WF_vars(Next)

(* both canonicalisation strategies applied to one raw flight number *)
InitFN ==
    /\ pc = "flight_number"
    /\ raw \in FlightNumberInputs
    /\ fn_clean = NotYet /\ fn_format = NotYet
    /\ IdleGet /\ IdleRec

CleanFlightNumber ==
    /\ pc = "flight_number" /\ fn_clean = NotYet
    /\ fn_clean' = clean_flight_number(raw)
    /\ UNCHANGED <<pc, raw, fn_format, getVars, recVars>>

FormatFlightNumber ==
    /\ pc = "flight_number" /\ fn_format = NotYet
    /\ fn_format' = format_flight_number(raw)
    /\ UNCHANGED <<pc, raw, fn_clean, getVars, recVars>>

NextFN == CleanFlightNumber \/ FormatFlightNumber

SpecFN == InitFN /\ [][NextFN]_vars

(* extract_times and process_flight applied to one raw flight entry *)
InitRec ==
    /\ pc = "record"
    /\ variant \in Variants
    /\ direction \in {1, 2}
    /\ entry \in RawEntries
    /\ entry_date \in {0, MaxDay}
    /\ times = NotYet /\ rec = NoRecord
    /\ direction_str = <<>> /\ now = 0 /\ current_date = 0 /\ dates = {}
    /\ pending = {} /\ api = {} /\ answered = <<>> /\ failed = {}
    /\ requests = <<>> /\ all_flights = <<>> /\ raised = "none"
    /\ IdleFN

\* extract_times on the entry's status as it stands (any string)
ExtractTimes ==
    /\ pc = "record" /\ times = NotYet
    /\ Get(entry, "status", Empty) # None
    /\ times' = extract_times(variant, Get(entry, "status", Empty),
                              Get(entry, "scheduled_time", Empty), entry_date)
    /\ UNCHANGED <<pc, entry, entry_date, rec, getVars, fnVars>>

ProcessFlight ==
    /\ pc = "record" /\ rec = NoRecord
    /\ rec' = process_flight(variant, entry, direction, entry_date)
    /\ UNCHANGED <<pc, entry, entry_date, times, getVars, fnVars>>

NextRec == ExtractTimes \/ ProcessFlight

SpecRec == InitRec /\ [][NextRec]_vars

-----------------------------------------------------------------------------
(* Claims *)

\* all leading zeros removed, the last digit kept
RECURSIVE Depad(_)
Depad(d) == IF Len(d) > 1 /\ d[1] = "0" THEN Depad(Tail(d)) ELSE d

IsDigits(d) == Len(d) > 0 /\ \A i \in 1..Len(d) : d[i] \in Digits
IsCode(c)   == \A i \in 1..Len(c) : c[i] \in CodeChars

\* C3: format_flight_number returns a carrier code immediately followed by a
\* number without leading zero unchanged, and turns "code number" into the code
\* followed by the de-padded number.
C3_FormatCanonical ==
    fn_format # NotYet =>
        /\ \A k \in 2..3 :
              (/\ Len(raw) > k
               /\ IsCode(UpTo(raw, k))
               /\ IsDigits(From(raw, k))
               /\ raw[k + 1] # "0")
              => fn_format = raw
        /\ \A k \in 2..3 :
              (/\ Len(raw) > k + 1
               /\ IsCode(UpTo(raw, k))
               /\ raw[k + 1] = " "
               /\ IsDigits(From(raw, k + 1)))
              => fn_format = UpTo(raw, k) \o Depad(From(raw, k + 1))

\* a 2-character carrier code of capitals and digits, an optional single
\* space, digits
InC4Domain(s) ==
    /\ Len(s) >= 3
    /\ s[1] \in CodeChars /\ s[2] \in CodeChars
    /\ \/ IsDigits(From(s, 2))
       \/ s[3] = " " /\ IsDigits(From(s, 3))

\* C4: on such a raw flight number both strategies return the same string.
C4_StrategiesAgree ==
    (fn_clean # NotYet /\ fn_format # NotYet /\ InC4Domain(raw))
        => fn_clean = fn_format

ArrivalTimeKeys ==
    {"scheduled_arrival_time", "estimated_arrival_time", "actual_arrival_time"}
DepartureTimeKeys ==
    {"scheduled_departure_time", "estimated_departure_time",
     "actual_departure_time"}
GateKeys == {"boarding_gate", "checkin_location"}

\* YYYY-MM-DDTHH:MM:SS.mmm+HH:MM
IsIsoTimestamp(s) ==
    /\ Len(s) = 29
    /\ s[5] = "-" /\ s[8] = "-" /\ s[11] = "T" /\ s[14] = ":" /\ s[17] = ":"
    /\ s[20] = "." /\ s[24] \in {"+", "-"} /\ s[27] = ":"
    /\ \A i \in (1..29) \ {5, 8, 11, 14, 17, 20, 24, 27} : s[i] \in Digits

\* C2: each of the three time fields of a produced record is a fully qualified
\* timezone-aware timestamp or "N/A", never None, absent or a bare "HH:MM".
C2_TimeFieldsQualified ==
    IsRecord(rec) =>
        \A k \in (IF direction = 2 THEN ArrivalTimeKeys ELSE DepartureTimeKeys) :
            /\ k \in DOMAIN rec
            /\ rec[k] = NA \/ IsIsoTimestamp(rec[k])

\* The clock time a status ends with, read by position: the last five
\* characters before trailing whitespace are DD:DD with hour < 24 and
\* minute < 60, whitespace stands before them, and some word before that.
TrailingClock(st) ==
    LET nonws == {i \in 1..Len(st) : st[i] \notin Whitespace}
        n == IF nonws = {} THEN 0
             ELSE CHOOSE i \in nonws : \A j \in nonws : i >= j
    IN  IF /\ n >= 7
           /\ st[n - 5] \in Whitespace
           /\ \E j \in 1..(n - 6) : st[j] \notin Whitespace
           /\ {st[n - 4], st[n - 3], st[n - 1], st[n]} \subseteq Digits
           /\ st[n - 2] = ":"
           /\ 10 * DigitVal(st[n - 4]) + DigitVal(st[n - 3]) < 24
           /\ 10 * DigitVal(st[n - 1]) + DigitVal(st[n]) < 60
        THEN {<<10 * DigitVal(st[n - 4]) + DigitVal(st[n - 3]),
                10 * DigitVal(st[n - 1]) + DigitVal(st[n])>>}
        ELSE {}

\* C5: extract_times returns estimated = actual; both are the timestamp of the
\* status' trailing HH:MM token on the query date exactly when the status has
\* at least two tokens and ends with a valid HH:MM token, and "N/A" otherwise;
\* scheduled is what scheduled_time alone parses to.
C5_StatusTime ==
    times # NotYet =>
        LET st == Get(entry, "status", Empty)
            sc == Get(entry, "scheduled_time", Empty)
        IN  /\ times[2] = times[3]
            /\ \A c \in TrailingClock(st) :
                  times[2] = IsoFormat(entry_date, c[1], c[2])
            /\ TrailingClock(st) = {} => times[2] = NA
            /\ times[1] = parse_flight_time(variant, sc, entry_date)

C5_Witness ==
    /\ times # NotYet
    /\ TrailingClock(Get(entry, "status", Empty)) # {}
    /\ IsIsoTimestamp(times[2])
    /\ times[3] = times[2]

\* C10 as stated: the record's shape depends only on the direction, and every
\* departure record carries boarding_gate and checkin_location.
C10_ShapeByDirection ==
    IsRecord(rec) =>
        /\ direction = 2 =>
              /\ ArrivalTimeKeys \subseteq DOMAIN rec
              /\ (DepartureTimeKeys \cup GateKeys) \cap DOMAIN rec = {}
        /\ direction = 1 =>
              /\ DepartureTimeKeys \subseteq DOMAIN rec
              /\ ArrivalTimeKeys \cap DOMAIN rec = {}
              /\ \A k \in GateKeys :
                    k \in DOMAIN rec /\ rec[k] = Get(entry, k, None)
        /\ rec.callsign = rec.flight_number
        /\ Get(entry, "status", Empty) = Empty => rec.status = NA

\* C10 amended: arrival records carry the arrival times and no gate fields;
\* departure records carry the departure times, and boarding_gate and
\* checkin_location with the raw entry's values (None for an absent key) in
\* katowise_v3.py only, 19_05_flight.py's departure records carry neither;
\* callsign = flight_number, and status is "N/A" for an empty or missing one.
C10_ShapeByDirectionAndVariant ==
    IsRecord(rec) =>
        /\ direction = 2 =>
              /\ ArrivalTimeKeys \subseteq DOMAIN rec
              /\ (DepartureTimeKeys \cup GateKeys) \cap DOMAIN rec = {}
        /\ direction = 1 =>
              /\ DepartureTimeKeys \subseteq DOMAIN rec
              /\ ArrivalTimeKeys \cap DOMAIN rec = {}
              /\ variant = "v3" =>
                    \A k \in GateKeys :
                        k \in DOMAIN rec /\ rec[k] = Get(entry, k, None)
              /\ variant = "19_05" => GateKeys \cap DOMAIN rec = {}
        /\ rec.callsign = rec.flight_number
        /\ Get(entry, "status", Empty) = Empty => rec.status = NA

C10_Witness ==
    /\ IsRecord(rec) /\ variant = "v3" /\ direction = 1
    /\ "boarding_gate" \in DOMAIN entry
    /\ rec.boarding_gate = entry.boarding_gate
    /\ "checkin_location" \notin DOMAIN entry
    /\ rec.checkin_location = None


\* the date a request was made for
DateOfRequest(r) == CHOOSE d \in dates : DateStr(d) = r.date

\* the normalized records of a request: none for a failed date, those of the
\* answer's entries otherwise
RecordsOf(d) ==
    IF d \in failed THEN <<>>
    ELSE [i \in 1..Len(answered[d]) |->
            process_flight(variant, answered[d][i], direction, d)]

\* the records of the first n requests, in order
RECURSIVE RecordsUpTo(_)
RecordsUpTo(n) ==
    IF n = 0 THEN <<>>
    ELSE RecordsUpTo(n - 1) \o RecordsOf(DateOfRequest(requests[n]))

\* get_flights went past the validation and ended
Ended == pc = "returned" \/ (pc = "raised" /\ raised # "ValueError")

\* C1: whatever entries the answers hold, get_flights does not raise, and every
\* entry that normalises is in the returned list.
C1_NoEntryAbortsBatch ==
    /\ raised \in {"none", "ValueError"}
    /\ pc = "returned" =>
          \A n \in 1..Len(requests) :
              LET rs == RecordsOf(DateOfRequest(requests[n]))
              IN  \A i \in 1..Len(rs) :
                      IsRecord(rs[i]) =>
                          \E j \in 1..Len(all_flights) : all_flights[j] = rs[i]

\* C6: when get_flights ends, every date of the window was requested exactly
\* once, failed dates contribute nothing, and the list holds exactly the
\* normalized records of the answered dates.
C6_FailedDateSkipped ==
    Ended =>
        /\ pc = "returned"
        /\ \A d \in dates :
              Cardinality({i \in 1..Len(requests) :
                              requests[i].date = DateStr(d)}) = 1
        /\ all_flights = RecordsUpTo(Len(requests))

\* s is the word w, letter case aside
SameWord(s, w) ==
    /\ Len(s) = Len(w)
    /\ \A i \in 1..Len(w) : s[i] = w[i] \/ s[i] = UpperChar(w[i])

\* s is the word w, letter case and surrounding whitespace aside
SamePaddedWord(s, w) ==
    \E a \in 0..Len(s) :
        /\ a + Len(w) <= Len(s)
        /\ \A i \in 1..a : s[i] \in Whitespace
        /\ \A i \in 1..Len(w) : s[a + i] = w[i] \/ s[a + i] = UpperChar(w[i])
        /\ \A i \in (a + Len(w) + 1)..Len(s) : s[i] \in Whitespace

\* C7 as stated: exactly the strings that are one of the four words in any
\* letter case are accepted, to 1 for departure(s) and 2 for arrival(s); every
\* other string raises, before any request.
C7_ExactSynonyms ==
    pc # "start" =>
        LET dep == SameWord(direction_str, Departure)
                   \/ SameWord(direction_str, Departures)
            arr == SameWord(direction_str, Arrival)
                   \/ SameWord(direction_str, Arrivals)
        IN  /\ dep => raised # "ValueError" /\ direction = 1
            /\ arr => raised # "ValueError" /\ direction = 2
            /\ ~(dep \/ arr) => raised = "ValueError" /\ requests = <<>>

\* C7 amended: exactly the strings that, leading and trailing whitespace
\* removed, are one of the four words in any letter case are accepted.
C7_SynonymsModuloPadding ==
    pc # "start" =>
        LET dep == SamePaddedWord(direction_str, Departure)
                   \/ SamePaddedWord(direction_str, Departures)
            arr == SamePaddedWord(direction_str, Arrival)
                   \/ SamePaddedWord(direction_str, Arrivals)
        IN  /\ dep => raised # "ValueError" /\ direction = 1
            /\ arr => raised # "ValueError" /\ direction = 2
            /\ ~(dep \/ arr) => raised = "ValueError" /\ requests = <<>>

C7_Witness ==
    /\ pc = "returned" /\ Len(requests) > 0
    /\ direction = 1
    /\ direction_str # ToLower(direction_str)
    /\ Len(direction_str) > Len(Departures)

\* calculate_date_window has returned
WindowComputed == pc \in {"query", "returned"} \/ Ended

\* C8: the date set holds the dates of now-12h and of now+12h and no date
\* before the one or after the other, and the loop that builds it ends.
C8_DateWindow ==
    /\ [](WindowComputed =>
            /\ DateOf(now - HalfWindow) \in dates
            /\ DateOf(now + HalfWindow) \in dates
            /\ \A d \in dates : /\ DateOf(now - HalfWindow) <= d
                                /\ d <= DateOf(now + HalfWindow))
    /\ <>(WindowComputed \/ raised = "ValueError")

\* now is 12:00, so that the window ends at 00:00 of the next day
C8_Witness ==
    /\ WindowComputed
    /\ now % MinutesPerDay = HalfWindow
    /\ dates = {DateOf(now), DateOf(now) + 1}

\* the time of day of an instant, "HH:MM"
ClockOf(t) ==
    <<DigitChar(((t \div 60) % 24) \div 10), DigitChar(((t \div 60) % 24) % 10),
      ":", DigitChar((t % 60) \div 10), DigitChar((t % 60) % 10)>>

\* C9: a request for the window's start date asks from the time of day of
\* now-12h, for any other date from "00:00"; a request for the window's end
\* date asks up to the time of day of now+12h, for any other date to "23:59".
C9_TimeRange ==
    \A i \in 1..Len(requests) :
        \E d \in DateOf(now - HalfWindow)..DateOf(now + HalfWindow) :
            /\ requests[i].date = DateStr(d)
            /\ requests[i].time_from =
                  IF d = DateOf(now - HalfWindow)
                  THEN ClockOf(now - HalfWindow) ELSE Midnight
            /\ requests[i].time_to =
                  IF d = DateOf(now + HalfWindow)
                  THEN ClockOf(now + HalfWindow) ELSE LastMinute

C9_Witness ==
    /\ Len(requests) = 2
    /\ \E i \in 1..2 :
          /\ requests[i].time_from = ClockOf(now - HalfWindow)
          /\ requests[i].time_from # Midnight
          /\ requests[i].time_to = LastMinute
          /\ requests[3 - i].time_from = Midnight
          /\ requests[3 - i].time_to = ClockOf(now + HalfWindow)
          /\ requests[3 - i].time_to # LastMinute

====
